---------------------------- MODULE Spec2Model ----------------------------
(***************************************************************************)
(* A model of the capability terminal's agent core:                        *)
(*   - the execution gateway (agent/dynamic_tools.py, _execute_command     *)
(*     and human_in_the_loop_confirmation);                                *)
(*   - the registry cache and the startup sequence (agent/agent_core.py,   *)
(*     load_tool_registry_from_cache, save_tool_registry_to_cache,         *)
(*     create_bigtool_agent).                                              *)
(* Text is modelled as a sequence of one-character strings, so that        *)
(* lower(), strip(), startswith() and split() are computed, not assumed.   *)
(***************************************************************************)
EXTENDS Integers, Sequences, FiniteSets, TLC

VARIABLES
    \* ---- execution gateway: one call of _execute_command ----
    epc,        \* position inside _execute_command
    rawName,    \* command_name as passed by the caller
    cmdName,    \* command_name after .lower().strip()
    cmdArgs,    \* args as passed by the caller
    prompted,   \* human_in_the_loop_confirmation has been entered
    reply,      \* what input() did in this call
    spawned,    \* a child process has been started in this call
    argv,       \* full_command_list handed to subprocess.run
    result,     \* the text returned by _execute_command (<<>>: none yet)
    raised,     \* the exception that left _execute_command ("none": none)
    elapsed,    \* seconds spent inside subprocess.run
    child,      \* how subprocess.run ended in this call
    \* ---- registry cache, vector collection and startup ----
    cache,      \* the file at TOOL_REGISTRY_CACHE_PATH
    backup,     \* the file at TOOL_REGISTRY_CACHE_PATH + ".backup"
    coll,       \* the Milvus collection: whether it exists, the tool_id metadata
    spc,        \* position of the process inside create_bigtool_agent
    registry,   \* tool_registry held by the process (None before it is set)
    nextId,     \* stands for uuid4: the next identifier never handed out
    startups,   \* number of processes started so far
    savePrior,  \* the cache file as save_tool_registry_to_cache found it
    saveFailed, \* the write of the running save has failed
    loadTrace,  \* the last load: the files it found, what it returned
    prevLoad,   \* the load before the last one, in the same process
    persisted,  \* the registry for which save returned True in this process
    scanned,    \* the tools the scan returned to the build under way
    issued,     \* every identifier a build has assigned so far, in any process
    \* ---- semantic index adapter: one call of MilvusStoreWrapper.search ----
    qpc,        \* position inside search
    sargs,      \* *args of the call
    skwargs,    \* **kwargs of the call ("query", "k", "limit"; Absent: not given)
    query,      \* the local variable query, once resolved
    topK,       \* the local variable k, once resolved
    request,    \* what was sent to similarity_search_with_score
    answer,     \* what similarity_search_with_score did
    sresult,    \* the list search returned
    sraised,    \* the exception that left search ("none": none)
    \* ---- capability scanner: one call of load_system_command_tools ----
    zpc,        \* position inside load_system_command_tools
    host,       \* what the host has: search path, shutil.which, package managers
    valid_cmds, \* the list valid_cmds
    uncapped,   \* valid_cmds as the ceiling found it
    tools,      \* the list tools
    pos,        \* the loop over valid_cmds: index of the next command
    lastHelp,   \* what get_command_help gave the last pass of the loop
    \* ---- MilvusStoreWrapper: get, put and delete on a built agent's store ----
    tool_registry, \* self.tool_registry, the dict the agent was built with
    index_ids,     \* the tool_id metadata held by self.vector_store
    lastOp,        \* the last call: its arguments, the dict before it, its result
    lastPut,       \* per key, the value of the last put not deleted since
    \* ---- help extraction: one call of get_command_help ----
    hpc,        \* position inside get_command_help
    system,     \* platform.system()
    tried,      \* the probes run so far, in order
    outcomes,   \* what each of them did
    hresult     \* what get_command_help returned or raised

execVars == <<epc, rawName, cmdName, cmdArgs, prompted, reply, spawned, argv,
              result, raised, elapsed, child>>

cacheVars == <<cache, backup, coll, spc, registry, nextId, startups,
               savePrior, saveFailed, loadTrace, prevLoad, persisted, scanned,
               issued>>

searchVars == <<qpc, sargs, skwargs, query, topK, request, answer, sresult, sraised>>

scanVars == <<zpc, host, valid_cmds, uncapped, tools, pos, lastHelp>>

storeVars == <<tool_registry, index_ids, lastOp, lastPut>>

helpVars == <<hpc, system, tried, outcomes, hresult>>

vars == <<execVars, cacheVars, searchVars, scanVars, storeVars, helpVars>>

\* What the actions of one part leave alone: the variables of the others.
notExec   == <<cacheVars, searchVars, scanVars, storeVars, helpVars>>
notCache  == <<execVars, searchVars, scanVars, storeVars, helpVars>>
notSearch == <<execVars, cacheVars, scanVars, storeVars, helpVars>>
notScan   == <<execVars, cacheVars, searchVars, storeVars, helpVars>>
notStore  == <<execVars, cacheVars, searchVars, scanVars, helpVars>>
notHelp   == <<execVars, cacheVars, searchVars, scanVars, storeVars>>

---------------------------------------------------------------------------
(* Text helpers: Python's str.lower, str.strip, str.startswith, str.split  *)

Whitespace == {" ", "\t", "\n"}

UpperToLower ==
    [c \in {"A","B","C","D","E","F","G","H","I","J","K","L","M","N","O","P",
            "Q","R","S","T","U","V","W","X","Y","Z"} |->
        CASE c = "A" -> "a" [] c = "B" -> "b" [] c = "C" -> "c" [] c = "D" -> "d"
          [] c = "E" -> "e" [] c = "F" -> "f" [] c = "G" -> "g" [] c = "H" -> "h"
          [] c = "I" -> "i" [] c = "J" -> "j" [] c = "K" -> "k" [] c = "L" -> "l"
          [] c = "M" -> "m" [] c = "N" -> "n" [] c = "O" -> "o" [] c = "P" -> "p"
          [] c = "Q" -> "q" [] c = "R" -> "r" [] c = "S" -> "s" [] c = "T" -> "t"
          [] c = "U" -> "u" [] c = "V" -> "v" [] c = "W" -> "w" [] c = "X" -> "x"
          [] c = "Y" -> "y" [] c = "Z" -> "z"]

LowerChar(c) == IF c \in DOMAIN UpperToLower THEN UpperToLower[c] ELSE c

Lower(s) == [i \in 1..Len(s) |-> LowerChar(s[i])]

RECURSIVE LStrip(_)
LStrip(s) ==
    IF s # <<>> /\ Head(s) \in Whitespace THEN LStrip(Tail(s)) ELSE s

RECURSIVE RStrip(_)
RStrip(s) ==
    IF s # <<>> /\ s[Len(s)] \in Whitespace
    THEN RStrip(SubSeq(s, 1, Len(s) - 1))
    ELSE s

Strip(s) == RStrip(LStrip(s))

StartsWith(s, p) == Len(s) >= Len(p) /\ SubSeq(s, 1, Len(p)) = p

\* str.split() with no separator: the maximal runs of non-whitespace.
RECURSIVE SplitFrom(_, _, _)
SplitFrom(s, cur, acc) ==
    IF s = <<>>
    THEN IF cur = <<>> THEN acc ELSE Append(acc, cur)
    ELSE IF Head(s) \in Whitespace
         THEN SplitFrom(Tail(s), <<>>, IF cur = <<>> THEN acc ELSE Append(acc, cur))
         ELSE SplitFrom(Tail(s), Append(cur, Head(s)), acc)

Split(s) == SplitFrom(s, <<>>, <<>>)

---------------------------------------------------------------------------
(* agent/dynamic_tools.py: configuration                                   *)

DANGEROUS_COMMANDS ==
    { <<"r","m">>, <<"d","e","l">>, <<"e","r","a","s","e">>,
      <<"f","o","r","m","a","t">>, <<"m","k","f","s">>, <<"d","d">>,
      <<"m","v">>, <<"m","o","v","e">>, <<"r","d">>,
      <<"r","m","d","i","r">>,
      <<"r","e","m","o","v","e","-","i","t","e","m">>,
      <<"c","l","e","a","r","-","d","i","s","k">> }

\* The privilege-escalation entries of BASE_COMMANDS_TO_EXCLUDE.
ELEVATION_COMMANDS ==
    { <<"s","u","d","o">>, <<"s","u">>, <<"d","o","a","s">> }

Sudo == <<"s","u","d","o">>

TIMEOUT == 30

\* The texts _execute_command returns, as sequences of text pieces.
Rejection == << "Error: sudo access is strictly forbidden." >>
Cancelled == << "Execution cancelled by user." >>
NoOutput  == << "Command executed successfully with no output." >>
TimedOut  == << "Error: Command timed out after 30 seconds." >>
NotFound(name) == << "Error: Command '" >> \o name \o << "' not found." >>
Unexpected(e)  == << "An unexpected error occurred: ", e >>
Labelled(out, err) ==
    (IF out # "" THEN << "STDOUT:\n", out, "\n" >> ELSE <<>>)
    \o (IF err # "" THEN << "STDERR:\n", err, "\n" >> ELSE <<>>)
Output(out, err) ==
    IF Labelled(out, err) # <<>> THEN Labelled(out, err) ELSE NoOutput


---------------------------------------------------------------------------
(* Inputs of the gateway                                                   *)

\* Upper-casing is used only to build caller inputs in another case.
UpperChar(c) ==
    IF \E u \in DOMAIN UpperToLower : UpperToLower[u] = c
    THEN CHOOSE u \in DOMAIN UpperToLower : UpperToLower[u] = c
    ELSE c
Upper(s) == [i \in 1..Len(s) |-> UpperChar(s[i])]

BaseNames ==
    { <<"s","u","d","o">>, <<"s","u">>, <<"d","o","a","s">>,
      <<"r","m">>, <<"m","v">>, <<"d","d">>, <<"l","s">> }

Pads == { <<>>, <<" ">> }

\* Every base name, in lower and upper case, with and without surrounding blanks.
RawNames ==
    { l \o c \o r : l \in Pads, r \in Pads,
                    c \in BaseNames \cup { Upper(b) : b \in BaseNames } }

ArgStrings ==
    { <<>>,
      <<" ">>,
      <<"x">>,
      <<"-","r","f"," "," ","/","t">>,
      <<"s","u","d","o"," ","l","s">>,
      <<" ","s","u","d","o"," ","l","s">>,
      <<"S","U","D","O"," ","l","s">>,
      <<"s","u","d","o","k","u">>,
      <<"s","u"," ","-">>,
      <<"d","o","a","s"," ","l","s">> }

\* What input() can do: return a line, hit EOF, fail otherwise, be interrupted.
ReplyTexts ==
    { <<"y","e","s">>, <<"Y","E","S">>, <<" ","y","e","s"," ">>, <<"Y","e","s">>,
      <<"y">>, <<>>, <<"n","o">>, <<"y","e","s","s">> }

Replies ==
    { [kind |-> "line", text |-> t] : t \in ReplyTexts }
    \cup { [kind |-> k, text |-> <<>>] : k \in {"eof", "error", "interrupt"} }

NoReply == [kind |-> "none", text |-> <<>>]

\* How long the child would run if left alone, in seconds.
MaxOver == 2
Durations == {0, TIMEOUT - 1, TIMEOUT} \cup (TIMEOUT + 1 .. TIMEOUT + MaxOver)

Streams == {"", "text"}

NoChild == [kind |-> "none", dur |-> 0, out |-> "", err |-> ""]

\* What subprocess.run can do once the argument vector is built.
LaunchOutcomes ==
    { [kind |-> k, dur |-> 0, out |-> "", err |-> ""] : k \in {"notfound", "fault"} }
RunOutcomes ==
    { [kind |-> "exit", dur |-> d, out |-> o, err |-> e] :
        d \in {x \in Durations : x <= TIMEOUT}, o \in Streams, e \in Streams }
    \cup { [kind |-> "timeout", dur |-> d, out |-> "", err |-> ""] :
        d \in {x \in Durations : x >= TIMEOUT} }
    \cup { [kind |-> "fault", dur |-> d, out |-> "", err |-> ""] :
        d \in {x \in Durations : x <= TIMEOUT} }

---------------------------------------------------------------------------
(* agent/dynamic_tools.py: _execute_command, human_in_the_loop_confirmation *)

\* A faulty variant: the name is compared as the caller gave it.
NameKeptAsGiven(n) == n
\* command_name.lower().strip()
NormalizeName(n) == Strip(Lower(n))

\* command_name == "sudo" or (args and args.strip().startswith("sudo"))
ElevationBlock(name, args) ==
    name = Sudo \/ (args # <<>> /\ StartsWith(Strip(args), Sudo))

\* A faulty variant: the reply is compared without lower() and strip().
AffirmativeExact(text) == text = <<"y","e","s">>
\* input(...).lower().strip() == "yes"
Affirmative(text) == Strip(Lower(text)) = <<"y","e","s">>

\* A faulty variant: EOF at the prompt counts as consent.
ConfirmationEofProceeds(r) ==
    CASE r.kind = "line"      -> [raises |-> "none", proceed |-> Affirmative(r.text)]
      [] r.kind = "eof"       -> [raises |-> "none", proceed |-> TRUE]
      [] r.kind = "error"     -> [raises |-> "RuntimeError", proceed |-> FALSE]
      [] r.kind = "interrupt" -> [raises |-> "KeyboardInterrupt", proceed |-> FALSE]
\* human_in_the_loop_confirmation: True / False, or the exception it lets
\* through (only EOFError is caught).
Confirmation(r) ==
    CASE r.kind = "line"      -> [raises |-> "none", proceed |-> Affirmative(r.text)]
      [] r.kind = "eof"       -> [raises |-> "none", proceed |-> FALSE]
      [] r.kind = "error"     -> [raises |-> "RuntimeError", proceed |-> FALSE]
      [] r.kind = "interrupt" -> [raises |-> "KeyboardInterrupt", proceed |-> FALSE]

\* A faulty variant: every fault is reported as "not found".
RunResultFaultAsNotFound(name, o) ==
    CASE o.kind = "notfound" -> NotFound(name)
      [] o.kind = "timeout"  -> TimedOut
      [] o.kind = "fault"    -> NotFound(name)
      [] o.kind = "exit"     -> Output(o.out, o.err)
\* The try block of _execute_command: the text for each way subprocess.run ends.
RunResult(name, o) ==
    CASE o.kind = "notfound" -> NotFound(name)
      [] o.kind = "timeout"  -> TimedOut
      [] o.kind = "fault"    -> Unexpected("fault")
      [] o.kind = "exit"     -> Output(o.out, o.err)

\* subprocess.run(..., timeout=30): the child is killed at the bound.
RunTime(o) == IF o.kind = "timeout" THEN TIMEOUT ELSE o.dur

ExecInit ==
    /\ epc = "idle"
    /\ rawName = <<>>
    /\ cmdName = <<>>
    /\ cmdArgs = <<>>
    /\ prompted = FALSE
    /\ reply = NoReply
    /\ spawned = FALSE
    /\ argv = <<>>
    /\ result = <<>>
    /\ raised = "none"
    /\ elapsed = 0
    /\ child = NoChild

\* Entry: command_name = command_name.lower().strip()
Execute(n, a) ==
    /\ epc = "idle"
    /\ epc' = "elevation"
    /\ rawName' = n
    /\ cmdName' = NormalizeName(n)
    /\ cmdArgs' = a
    /\ UNCHANGED <<notExec, prompted, reply, spawned, argv, result, raised, elapsed, child>>

\* The sudo check.
ElevationCheck ==
    /\ epc = "elevation"
    /\ IF ElevationBlock(cmdName, cmdArgs)
       THEN epc' = "returned" /\ result' = Rejection
       ELSE epc' = "gate" /\ UNCHANGED result
    /\ UNCHANGED <<notExec, rawName, cmdName, cmdArgs, prompted, reply, spawned, argv,
                   raised, elapsed, child>>

\* if command_name in DANGEROUS_COMMANDS: enter the confirmation prompt.
ConfirmationGate ==
    /\ epc = "gate"
    /\ IF cmdName \in DANGEROUS_COMMANDS
       THEN epc' = "prompt" /\ prompted' = TRUE
       ELSE epc' = "launch" /\ UNCHANGED prompted
    /\ UNCHANGED <<notExec, rawName, cmdName, cmdArgs, reply, spawned, argv, result,
                   raised, elapsed, child>>

\* human_in_the_loop_confirmation blocks in input() until r happens.
HumanInTheLoopConfirmation(r) ==
    /\ epc = "prompt"
    /\ reply' = r
    /\ LET c == Confirmation(r) IN
         IF c.raises # "none"
         THEN epc' = "raised" /\ raised' = c.raises /\ UNCHANGED result
         ELSE IF c.proceed
              THEN epc' = "launch" /\ UNCHANGED <<raised, result>>
              ELSE epc' = "returned" /\ result' = Cancelled /\ UNCHANGED raised
    /\ UNCHANGED <<notExec, rawName, cmdName, cmdArgs, prompted, spawned, argv, elapsed, child>>

\* subprocess.run fails before any child exists.
LaunchFails(o) ==
    /\ epc = "launch"
    /\ argv' = <<cmdName>> \o Split(cmdArgs)
    /\ child' = o
    /\ result' = RunResult(cmdName, o)
    /\ elapsed' = RunTime(o)
    /\ epc' = "returned"
    /\ UNCHANGED <<notExec, rawName, cmdName, cmdArgs, prompted, reply, spawned, raised>>

\* subprocess.run starts the child.
Launch ==
    /\ epc = "launch"
    /\ argv' = <<cmdName>> \o Split(cmdArgs)
    /\ spawned' = TRUE
    /\ epc' = "running"
    /\ UNCHANGED <<notExec, rawName, cmdName, cmdArgs, prompted, reply, result, raised,
                   elapsed, child>>

\* subprocess.run returns or raises: exit, timeout at the bound, other fault.
ChildEnds(o) ==
    /\ epc = "running"
    /\ child' = o
    /\ result' = RunResult(cmdName, o)
    /\ elapsed' = RunTime(o)
    /\ epc' = "returned"
    /\ UNCHANGED <<notExec, rawName, cmdName, cmdArgs, prompted, reply, spawned, argv, raised>>

\* The caller takes the text (or the exception); the gateway is ready again.
ExecDone ==
    /\ epc \in {"returned", "raised"}
    /\ epc' = "idle"
    /\ rawName' = <<>>
    /\ cmdName' = <<>>
    /\ cmdArgs' = <<>>
    /\ prompted' = FALSE
    /\ reply' = NoReply
    /\ spawned' = FALSE
    /\ argv' = <<>>
    /\ result' = <<>>
    /\ raised' = "none"
    /\ elapsed' = 0
    /\ child' = NoChild
    /\ UNCHANGED notExec

ExecNext ==
    \/ \E n \in RawNames, a \in ArgStrings : Execute(n, a)
    \/ ElevationCheck
    \/ ConfirmationGate
    \/ \E r \in Replies : HumanInTheLoopConfirmation(r)
    \/ \E o \in LaunchOutcomes : LaunchFails(o)
    \/ Launch
    \/ \E o \in RunOutcomes : ChildEnds(o)
    \/ ExecDone

---------------------------------------------------------------------------
(* Properties of the execution gateway, checked under SpecExec             *)

\* The spellings of a word a caller may pass: either case, blanks around it.
Spellings(w) == { l \o c \o r : l \in Pads, r \in Pads, c \in {w, Upper(w)} }

Yes == <<"y","e","s">>

\* C3: execute("sudo", args), the name in any case and with surrounding
\* whitespace, returns the fixed rejection text for every argument string;
\* no child process is spawned and no confirmation is requested.
C3_SudoAlwaysRejected ==
    (rawName \in Spellings(Sudo) /\ epc \notin {"idle", "elevation"})
        => /\ epc = "returned"
           /\ result = << "Error: sudo access is strictly forbidden." >>
           /\ ~spawned
           /\ ~prompted
           /\ child = NoChild

C3_Witness ==
    /\ epc = "returned"
    /\ rawName = <<" ","S","U","D","O"," ">>
    /\ cmdArgs = <<"-","r","f"," "," ","/","t">>
    /\ result = Rejection

\* C4: for every privilege-elevation name (sudo, su, doas) and for every
\* argument string that begins with one of them, execute returns the fixed
\* rejection text at once: nothing is spawned and no confirmation is asked.
C4_ElevationAlwaysRejected ==
    ( /\ epc \notin {"idle", "elevation"}
      /\ \/ cmdName \in ELEVATION_COMMANDS
         \/ \E e \in ELEVATION_COMMANDS : StartsWith(cmdArgs, e) )
        => /\ epc = "returned"
           /\ result = << "Error: sudo access is strictly forbidden." >>
           /\ ~spawned
           /\ ~prompted

\* C5: for a destructive command, a negative reply or EOF at the prompt
\* cancels: no child is spawned and "Execution cancelled by user." is
\* returned; and a destructive command is only ever launched after an
\* affirmative reply in the same call.
NegativeTexts == { <<"n","o">>, <<>>, <<"y">>, <<"y","e","s","s">> }

C5_DeclinedNeverSpawns ==
    /\ ( /\ cmdName \in DANGEROUS_COMMANDS
         /\ \/ reply.kind = "eof"
            \/ reply.kind = "line" /\ reply.text \in NegativeTexts )
        => /\ epc = "returned"
           /\ result = << "Execution cancelled by user." >>
           /\ ~spawned
           /\ child = NoChild
    /\ ( /\ cmdName \in DANGEROUS_COMMANDS
         /\ (spawned \/ child # NoChild \/ epc \in {"launch", "running"}) )
        => /\ prompted
           /\ reply.kind = "line"
           /\ reply.text \in Spellings(Yes) \cup { <<"Y","e","s">> }

C5_Witness ==
    /\ cmdName = <<"r","m">>
    /\ prompted
    /\ reply.kind = "eof"
    /\ epc = "returned"
    /\ result = Cancelled

\* C6 as stated: the gate lets a destructive command proceed only when the
\* reply is exactly "yes"; every other reply ("y", "YES", " yes ", "")
\* cancels with the fixed cancellation text.
C6_OnlyExactYesProceeds ==
    (prompted /\ reply.kind = "line" /\ reply.text # <<"y","e","s">>)
        => (epc = "returned" /\ result = << "Execution cancelled by user." >>)

\* C6 amended: the gate lets a destructive command proceed exactly when the
\* reply, lower-cased and with surrounding whitespace removed, is "yes"
\* (so "YES" and " yes " proceed); every other reply ("y", "", "no")
\* cancels with the fixed cancellation text.
C6_NormalizedYesProceeds ==
    (prompted /\ reply.kind = "line")
        => IF Strip(Lower(reply.text)) = <<"y","e","s">>
           THEN /\ epc \in {"launch", "running", "returned"}
                /\ result # << "Execution cancelled by user." >>
                /\ (epc = "returned" => child # NoChild)
           ELSE /\ epc = "returned"
                /\ result = << "Execution cancelled by user." >>
                /\ ~spawned

C6_Witness ==
    /\ prompted
    /\ reply = [kind |-> "line", text |-> <<"Y","E","S">>]
    /\ spawned
    /\ epc = "running"

\* C7: for every name, argument string, outcome of the confirmation read and
\* outcome of the child, execute returns a text; no exception leaves it.
C7_NeverRaises ==
    /\ raised = "none"
    /\ epc # "raised"

\* C8: a failed launch or run is translated by kind: not found gives
\* "Error: Command '<name>' not found." with the normalized name, the timeout
\* gives the fixed timeout text and control is back at the 30 second bound,
\* every other fault gives the generic wrapped text; a call that reaches
\* subprocess.run returns exactly one of these or the normal output.
C8_FaultTranslation ==
    (epc = "returned" /\ child # NoChild)
        => /\ raised = "none"
           /\ elapsed <= 30
           /\ cmdName = Strip(Lower(rawName))
           /\ (child.kind = "notfound") <=>
                (result = << "Error: Command '" >> \o cmdName \o << "' not found." >>)
           /\ (child.kind = "timeout") <=>
                (result = << "Error: Command timed out after 30 seconds." >>)
           /\ (child.kind = "timeout") => (elapsed = 30)
           /\ (child.kind = "fault") <=>
                (result[1] = "An unexpected error occurred: ")
           /\ (child.kind = "exit") <=>
                \/ result = << "Command executed successfully with no output." >>
                \/ result[1] \in {"STDOUT:\n", "STDERR:\n"}
           /\ (child.kind = "exit") =>
                /\ (child.out = "" /\ child.err = "") <=> (result = NoOutput)
                /\ (child.out # "") <=> (result[1] = "STDOUT:\n")
                /\ (child.err # "") <=> (\E i \in 1..Len(result) : result[i] = "STDERR:\n")

C8_Witness ==
    /\ epc = "returned"
    /\ child.kind = "timeout"
    /\ child.dur > TIMEOUT
    /\ result = TimedOut
    /\ elapsed = TIMEOUT
    /\ rawName = <<" ","L","S">>

---------------------------------------------------------------------------
(* agent/agent_core.py: the cache file as pickle writes and reads it       *)
(*                                                                         *)
(* A file is a sequence of pickle tokens: a dict header carrying the       *)
(* number of entries, one token per entry, and the closing STOP.  A write  *)
(* that fails leaves a proper prefix of that sequence.                     *)

NoFile == [exists |-> FALSE, data |-> <<>>]
File(d) == [exists |-> TRUE, data |-> d]

Tok(op, n, id, name, desc, attrs) ==
    [op |-> op, n |-> n, id |-> id, name |-> name, description |-> desc,
     attrs |-> attrs]

DictTok(n) == Tok("dict", n, 0, "", "", {})
StopTok    == Tok("stop", 0, 0, "", "", {})
ItemTok(id, t) == Tok("item", 0, id, t.name, t.description, t.attrs)

\* Tool(name=command, description=..., func=CommandExecutor(command))
Tool(command) ==
    [name |-> command,
     description |-> "Executes the '" \o command \o "' command. Its help page is: ...",
     attrs |-> {"name", "description"}]

\* The entries of a registry in insertion order (identifiers grow).
RECURSIVE Items(_, _)
Items(reg, ids) ==
    IF ids = {} THEN <<>>
    ELSE LET i == CHOOSE x \in ids : \A y \in ids : x <= y
         IN  <<ItemTok(i, reg[i])>> \o Items(reg, ids \ {i})

\* A faulty variant: the entries are written without their description text.
PickleWithoutDescriptions(reg) ==
    <<DictTok(Cardinality(DOMAIN reg))>>
    \o Items([i \in DOMAIN reg |-> [reg[i] EXCEPT !.description = ""]], DOMAIN reg)
    \o <<StopTok>>
\* pickle.dump(tool_registry, f)
Pickle(reg) ==
    <<DictTok(Cardinality(DOMAIN reg))>> \o Items(reg, DOMAIN reg) \o <<StopTok>>

EmptyReg == [i \in {} |-> Tool("")]

RECURSIVE ReadItems(_, _, _)
ReadItems(data, k, acc) ==
    IF k = 0 THEN acc
    ELSE LET t == data[Len(data) - k + 1]
         IN  ReadItems(data, k - 1,
                       [i \in DOMAIN acc \cup {t.id} |->
                           IF i = t.id
                           THEN [name |-> t.name, description |-> t.description,
                                 attrs |-> t.attrs]
                           ELSE acc[i]])

\* pickle.load(f): the exception it raises ("none": none), the kind of the
\* object it returns, and the mapping when that object is a dict.
PickleLoad(data) ==
    IF data = <<>> THEN [error |-> "EOFError", kind |-> "none", map |-> EmptyReg]
    ELSE CASE data[1].op = "junk" ->
                [error |-> "UnpicklingError", kind |-> "none", map |-> EmptyReg]
           [] data[1].op = "global" ->
                [error |-> "AttributeError", kind |-> "none", map |-> EmptyReg]
           [] data[1].op = "list" ->
                IF Len(data) >= 2 /\ data[2].op = "stop"
                THEN [error |-> "none", kind |-> "list", map |-> EmptyReg]
                ELSE [error |-> "EOFError", kind |-> "none", map |-> EmptyReg]
           [] data[1].op = "dict" ->
                IF /\ Len(data) = data[1].n + 2
                   /\ data[Len(data)].op = "stop"
                   /\ \A i \in 2..(Len(data) - 1) : data[i].op = "item"
                THEN [error |-> "none", kind |-> "dict",
                      map |-> ReadItems(SubSeq(data, 2, Len(data) - 1),
                                        data[1].n, EmptyReg)]
                ELSE [error |-> "EOFError", kind |-> "none", map |-> EmptyReg]
           [] OTHER ->
                [error |-> "UnpicklingError", kind |-> "none", map |-> EmptyReg]

\* The registry a process holds: None, or a mapping from identifier to tool.
None == [some |-> FALSE, map |-> EmptyReg]
Some(reg) == [some |-> TRUE, map |-> reg]

---------------------------------------------------------------------------
(* agent/agent_core.py: load_tool_registry_from_cache                      *)

\* except (pickle.PickleError, EOFError, ValueError)
HandledLoadErrors == {"UnpicklingError", "EOFError", "ValueError"}

\* The exception raised inside the try block after the size check
\* ("none": the registry is returned).
LoadError(data) ==
    LET p == PickleLoad(data) IN
    IF p.error # "none" THEN p.error
    ELSE IF p.kind # "dict" THEN "ValueError"
    ELSE IF DOMAIN p.map = {} THEN "ValueError"
    ELSE IF \E i \in DOMAIN p.map :
                ~({"name", "description"} \subseteq p.map[i].attrs)
         THEN "ValueError"
    ELSE "none"

\* A faulty variant: a zero-length file is reported absent but left in place.
LoadKeepsEmptyFile(f, removeOk) ==
    IF ~f.exists THEN [ret |-> None, file |-> f]
    ELSE IF f.data = <<>> THEN [ret |-> None, file |-> f]
    ELSE IF LoadError(f.data) = "none"
         THEN [ret |-> Some(PickleLoad(f.data).map), file |-> f]
    ELSE IF LoadError(f.data) \in HandledLoadErrors
         THEN [ret |-> None, file |-> IF removeOk THEN NoFile ELSE f]
    ELSE [ret |-> None, file |-> f]
\* A faulty variant: the file is removed on every path, the successful one too.
LoadConsumesFile(f, removeOk) ==
    IF ~f.exists THEN [ret |-> None, file |-> f]
    ELSE IF f.data = <<>>
         THEN [ret |-> None, file |-> IF removeOk THEN NoFile ELSE f]
    ELSE IF LoadError(f.data) = "none"
         THEN [ret |-> Some(PickleLoad(f.data).map),
               file |-> IF removeOk THEN NoFile ELSE f]
    ELSE IF LoadError(f.data) \in HandledLoadErrors
         THEN [ret |-> None, file |-> IF removeOk THEN NoFile ELSE f]
    ELSE [ret |-> None, file |-> f]
\* What load returns and the cache file it leaves; removeOk: os.remove works.
load_tool_registry_from_cache(f, removeOk) ==
    IF ~f.exists THEN [ret |-> None, file |-> f]
    ELSE IF f.data = <<>>
         \* os.remove inside the try: a failure ends in "except Exception"
         THEN [ret |-> None, file |-> IF removeOk THEN NoFile ELSE f]
    ELSE IF LoadError(f.data) = "none"
         THEN [ret |-> Some(PickleLoad(f.data).map), file |-> f]
    ELSE IF LoadError(f.data) \in HandledLoadErrors
         \* the corrupt file is removed; "except OSError: pass"
         THEN [ret |-> None, file |-> IF removeOk THEN NoFile ELSE f]
    \* except Exception: None is returned and the file is left alone
    ELSE [ret |-> None, file |-> f]

NoLoad == [done |-> FALSE, file |-> NoFile, backup |-> NoFile, ret |-> None,
           removeOk |-> TRUE]

\* No save has returned True in this process.
NoPersist == [done |-> FALSE, map |-> EmptyReg, removed |-> FALSE]

---------------------------------------------------------------------------
(* Inputs of the startup                                                   *)

\* The processes started in one run of the model.
MaxStartups == 3

\* What load_system_command_tools may return to a process.
ScanResults == { <<>>, <<"ls">>, <<"cat", "ls">> }

\* Cache files a process may find that no save of this model wrote.
ForeignTool == [name |-> "ls", description |-> "old", attrs |-> {"name", "description"}]
InitCaches ==
    { NoFile,
      File(<<>>),
      File(<< Tok("junk", 0, 0, "", "", {}) >>),
      File(<< Tok("global", 0, 0, "", "", {}), StopTok >>),
      File(<< Tok("list", 0, 0, "", "", {}), StopTok >>),
      File(<< DictTok(0), StopTok >>),
      File(<< DictTok(1), Tok("item", 0, 0, "ls", "", {"name"}), StopTok >>),
      File(<< DictTok(1), ItemTok(0, ForeignTool) >>) }

NoColl == [exists |-> FALSE, ids |-> {}]

\* Identifiers are handed out in blocks, one block per build.
IdStride == CHOOSE n \in 0..16 :
    /\ \A t \in ScanResults : Len(t) <= n
    /\ \E t \in ScanResults : Len(t) = n

\* A faulty variant: every build numbers its tools from the same identifier.
BuildRegistryReusesIds(all_tools, first) ==
    [i \in 1 .. Len(all_tools) |-> Tool(all_tools[i])]
\* tool_registry = {str(uuid.uuid4()): tool for tool in all_tools}
BuildRegistry(all_tools, first) ==
    [i \in first .. (first + Len(all_tools) - 1) |-> Tool(all_tools[i - first + 1])]

CacheInit ==
    /\ cache \in InitCaches
    /\ backup = NoFile
    /\ coll = NoColl
    /\ spc = "idle"
    /\ registry = None
    /\ nextId = 1
    /\ startups = 0
    /\ savePrior = NoFile
    /\ saveFailed = FALSE
    /\ loadTrace = NoLoad
    /\ prevLoad = NoLoad
    /\ persisted = NoPersist
    /\ scanned = <<>>
    /\ issued = {}

\* The state in which the gateway is exercised: nothing cached, no process.
CacheFresh ==
    /\ cache = NoFile
    /\ backup = NoFile
    /\ coll = NoColl
    /\ spc = "idle"
    /\ registry = None
    /\ nextId = 1
    /\ startups = 0
    /\ savePrior = NoFile
    /\ saveFailed = FALSE
    /\ loadTrace = NoLoad
    /\ prevLoad = NoLoad
    /\ persisted = NoPersist
    /\ scanned = <<>>
    /\ issued = {}

---------------------------------------------------------------------------
(* agent/agent_core.py: create_bigtool_agent, save_tool_registry_to_cache  *)

\* A process starts and calls create_bigtool_agent: tool_registry = None.
Start ==
    /\ spc = "idle"
    /\ startups < MaxStartups
    /\ startups' = startups + 1
    /\ spc' = "check"
    /\ registry' = None
    /\ UNCHANGED <<notCache, issued, prevLoad, persisted, scanned, cache, backup, coll, nextId, savePrior, saveFailed, loadTrace>>

\* collection_exists: has_collection, or False when Milvus cannot be reached.
CollectionExists(reachable) ==
    /\ spc = "check"
    /\ spc' = IF reachable /\ coll.exists THEN "load" ELSE "scan"
    /\ UNCHANGED <<notCache, issued, prevLoad, persisted, scanned, cache, backup, coll, registry, nextId, startups,
                   savePrior, saveFailed, loadTrace>>

\* tool_registry = load_tool_registry_from_cache(); fast path when it is not None.
LoadAtStartup(removeOk) ==
    /\ spc = "load"
    /\ LET r == load_tool_registry_from_cache(cache, removeOk) IN
         /\ cache' = r.file
         /\ registry' = r.ret
         /\ loadTrace' = [done |-> TRUE, file |-> cache, backup |-> backup,
                          ret |-> r.ret, removeOk |-> removeOk]
         /\ spc' = IF r.ret.some THEN "connect" ELSE "scan"
    /\ UNCHANGED <<notCache, issued, prevLoad, persisted, scanned, backup, coll, nextId, startups, savePrior, saveFailed>>

\* Steps 1 and 2 of the rebuild: scan, then one fresh identifier per tool;
\* save_tool_registry_to_cache is entered.
ScanAndBuild(all_tools) ==
    /\ spc = "scan"
    /\ registry' = Some(BuildRegistry(all_tools, nextId))
    /\ nextId' = nextId + IdStride
    /\ savePrior' = cache
    /\ saveFailed' = FALSE
    /\ loadTrace' = NoLoad
    /\ scanned' = all_tools
    /\ issued' = issued \cup DOMAIN BuildRegistry(all_tools, nextId)
    /\ spc' = "save_rename"
    /\ UNCHANGED <<notCache, prevLoad, persisted, cache, backup, coll, startups>>

\* os.rename(cache, backup) when the cache exists; an OSError is passed over.
SaveRename(ok) ==
    /\ spc = "save_rename"
    /\ IF cache.exists /\ ok
       THEN backup' = cache /\ cache' = NoFile
       ELSE UNCHANGED <<cache, backup>>
    /\ spc' = "save_open"
    /\ scanned' = <<>>
    /\ UNCHANGED <<notCache, issued, prevLoad, persisted, coll, registry, nextId, startups, savePrior, saveFailed, loadTrace>>

\* open(cache, "wb"): the file is created or truncated, or open raises.
SaveOpen(ok) ==
    /\ spc = "save_open"
    /\ IF ok
       THEN cache' = File(<<>>) /\ spc' = "save_dump" /\ UNCHANGED saveFailed
       ELSE saveFailed' = TRUE /\ spc' = "save_restore" /\ UNCHANGED cache
    /\ UNCHANGED <<notCache, issued, prevLoad, persisted, scanned, backup, coll, registry, nextId, startups, savePrior, loadTrace>>

\* pickle.dump writes k tokens; fewer than all of them is a failed write.
SaveDump(k) ==
    /\ spc = "save_dump"
    /\ k \in 0..Len(Pickle(registry.map))
    /\ cache' = File(SubSeq(Pickle(registry.map), 1, k))
    /\ IF k = Len(Pickle(registry.map))
       THEN spc' = "save_cleanup" /\ UNCHANGED saveFailed
       ELSE spc' = "save_restore" /\ saveFailed' = TRUE
    /\ UNCHANGED <<notCache, issued, prevLoad, persisted, scanned, backup, coll, registry, nextId, startups, savePrior, loadTrace>>

\* The write succeeded: os.remove(backup) when it exists; returns True.
SaveCleanup(ok) ==
    /\ spc = "save_cleanup"
    /\ backup' = IF backup.exists /\ ok THEN NoFile ELSE backup
    /\ persisted' = [done |-> TRUE, map |-> registry.map,
                     removed |-> ok \/ ~backup.exists]
    /\ spc' = "populate"
    /\ UNCHANGED <<notCache, issued, prevLoad, scanned, cache, coll, registry, nextId, startups,
                   savePrior, saveFailed, loadTrace>>

\* The write failed: os.rename(backup, cache) when the backup exists; returns False.
SaveRestore(ok) ==
    /\ spc = "save_restore"
    /\ IF backup.exists /\ ok
       THEN cache' = backup /\ backup' = NoFile
       ELSE UNCHANGED <<cache, backup>>
    /\ spc' = "populate"
    /\ UNCHANGED <<notCache, issued, prevLoad, persisted, scanned, coll, registry, nextId, startups, savePrior, saveFailed, loadTrace>>

\* Milvus.from_documents(..., drop_old=True) succeeds: the collection holds
\* exactly the identifiers of the registry just built.
Populate ==
    /\ spc = "populate"
    /\ coll' = [exists |-> TRUE, ids |-> DOMAIN registry.map]
    /\ spc' = "connect"
    /\ savePrior' = NoFile
    /\ saveFailed' = FALSE
    /\ UNCHANGED <<notCache, issued, prevLoad, persisted, scanned, cache, backup, registry, nextId, startups, loadTrace>>

\* Milvus.from_documents with no document: the old collection is dropped and
\* none is created.
PopulateNothing ==
    /\ spc = "populate"
    /\ DOMAIN registry.map = {}
    /\ coll' = NoColl
    /\ spc' = "connect"
    /\ savePrior' = NoFile
    /\ saveFailed' = FALSE
    /\ UNCHANGED <<notCache, issued, prevLoad, persisted, scanned, cache, backup, registry, nextId, startups, loadTrace>>

\* The collections a failed insertion can leave: the documents go in in
\* registry order, so the first j of them are there, for some j short of all.
PartlyInserted(ids) ==
    { [exists |-> TRUE, ids |-> {i \in ids : i < j}] : j \in ids }

\* Milvus.from_documents raises: before the drop, after it, or with only
\* some documents inserted; the exception ends create_bigtool_agent.
PopulateFails(left) ==
    /\ spc = "populate"
    /\ coll' = left
    /\ spc' = "idle"
    /\ registry' = None
    /\ savePrior' = NoFile
    /\ saveFailed' = FALSE
    /\ persisted' = NoPersist
    /\ UNCHANGED <<notCache, issued, prevLoad, scanned, cache, backup, nextId, startups, loadTrace>>

\* Milvus(...), ChatGroq, create_agent, compile: the agent is returned, or
\* one of them raises and create_bigtool_agent ends without an agent.
Connect(ok) ==
    /\ spc = "connect"
    /\ IF ok
       THEN spc' = "ready" /\ UNCHANGED <<registry, persisted, loadTrace>>
       ELSE spc' = "idle" /\ registry' = None /\ persisted' = NoPersist
                         /\ loadTrace' = NoLoad
    /\ UNCHANGED <<notCache, issued, prevLoad, scanned, cache, backup, coll, nextId, startups, savePrior, saveFailed>>

\* main.py, get_autocomplete_list: load is called again once the agent exists.
LoadForAutocomplete(removeOk) ==
    /\ spc = "ready"
    /\ LET r == load_tool_registry_from_cache(cache, removeOk) IN
         /\ cache' = r.file
         /\ loadTrace' = [done |-> TRUE, file |-> cache, backup |-> backup,
                          ret |-> r.ret, removeOk |-> removeOk]
    /\ prevLoad' = loadTrace
    /\ UNCHANGED <<notCache, issued, persisted, scanned, backup, coll, spc, registry, nextId, startups, savePrior, saveFailed>>

\* The process ends normally.
Exit ==
    /\ spc = "ready"
    /\ spc' = "idle"
    /\ registry' = None
    /\ loadTrace' = NoLoad
    /\ prevLoad' = NoLoad
    /\ persisted' = NoPersist
    /\ UNCHANGED <<notCache, issued, scanned, cache, backup, coll, nextId, startups, savePrior, saveFailed>>

\* The process stops in the middle of create_bigtool_agent.
Stop ==
    /\ spc \notin {"idle", "ready"}
    /\ spc' = "idle"
    /\ registry' = None
    /\ savePrior' = NoFile
    /\ saveFailed' = FALSE
    /\ loadTrace' = NoLoad
    /\ prevLoad' = NoLoad
    /\ persisted' = NoPersist
    /\ scanned' = <<>>
    /\ UNCHANGED <<notCache, issued, cache, backup, coll, nextId, startups>>

CacheNext ==
    \/ Start
    \/ \E reachable \in BOOLEAN : CollectionExists(reachable)
    \/ \E removeOk \in BOOLEAN : LoadAtStartup(removeOk)
    \/ \E all_tools \in ScanResults : ScanAndBuild(all_tools)
    \/ \E ok \in BOOLEAN : SaveRename(ok)
    \/ \E ok \in BOOLEAN : SaveOpen(ok)
    \/ \E k \in 0..Len(Pickle(registry.map)) : SaveDump(k)
    \/ \E ok \in BOOLEAN : SaveCleanup(ok)
    \/ \E ok \in BOOLEAN : SaveRestore(ok)
    \/ Populate
    \/ PopulateNothing
    \/ \E left \in {coll, NoColl} \cup PartlyInserted(DOMAIN registry.map) :
          PopulateFails(left)
    \/ \E ok \in BOOLEAN : Connect(ok)
    \/ \E removeOk \in BOOLEAN : LoadForAutocomplete(removeOk)
    \/ Exit
    \/ Stop

---------------------------------------------------------------------------
(* agent/agent_core.py: MilvusStoreWrapper.search                          *)
(*                                                                         *)
(* A Python value is a record: its type, its text (str, float, the query   *)
(* attribute of an object), its number (int, bool) and its elements (tuple, *)
(* list).                                                                  *)

Val(t, s, i, e) == [t |-> t, s |-> s, i |-> i, e |-> e]

StrV(s)   == Val("str", s, 0, <<>>)
IntV(i)   == Val("int", "", i, <<>>)
BoolV(b)  == Val("bool", "", IF b THEN 1 ELSE 0, <<>>)
FloatV(s) == Val("float", s, 0, <<>>)
NoneV     == Val("none", "", 0, <<>>)
TupleV(e) == Val("tuple", "", 0, e)
ListV(e)  == Val("list", "", 0, e)
\* An object with a query attribute whose str() is s; one without.
QueryObj(s) == Val("obj", s, 0, <<>>)
PlainObj    == Val("plain", "", 0, <<>>)
\* A keyword that is not in kwargs.
Absent      == Val("absent", "", 0, <<>>)

\* isinstance(v, int): bool is a subclass of int.
IsInt(v) == v.t \in {"int", "bool"}

Digit == <<"0", "1", "2", "3", "4", "5", "6", "7", "8", "9">>

RECURSIVE IntText(_)
IntText(i) ==
    IF i < 10 THEN Digit[i + 1] ELSE IntText(i \div 10) \o Digit[(i % 10) + 1]

\* repr() of a value that is an element of a tuple or a list.
Repr(v) ==
    CASE v.t = "str"   -> "'" \o v.s \o "'"
      [] v.t = "int"   -> IntText(v.i)
      [] v.t = "bool"  -> IF v.i = 1 THEN "True" ELSE "False"
      [] v.t = "float" -> v.s
      [] v.t = "none"  -> "None"
      [] OTHER         -> "<object>"

RECURSIVE JoinRepr(_)
JoinRepr(e) ==
    IF e = <<>> THEN ""
    ELSE IF Len(e) = 1 THEN Repr(e[1])
    ELSE Repr(e[1]) \o ", " \o JoinRepr(Tail(e))

\* str(v)
Str(v) ==
    CASE v.t = "str"   -> v.s
      [] v.t = "tuple" -> "(" \o JoinRepr(v.e) \o (IF Len(v.e) = 1 THEN ",)" ELSE ")")
      [] v.t = "list"  -> "[" \o JoinRepr(v.e) \o "]"
      [] v.t = "obj"   -> "<object>"
      [] v.t = "plain" -> "<object>"
      [] OTHER         -> Repr(v)

Max(a, b) == IF a >= b THEN a ELSE b

DEFAULT_K == 5

\* A faulty variant: the first positional argument overrides the keyword.
ResolveQueryPositionalWins(args, kw) ==
    IF args # <<>>
    THEN LET a == args[1] IN
         IF a.t = "str" THEN a
         ELSE IF a.t \in {"tuple", "list"} /\ Len(a.e) > 0 THEN StrV(Str(a.e[1]))
         ELSE IF a.t = "obj" THEN StrV(a.s)
         ELSE StrV(Str(a))
    ELSE IF kw.query # Absent THEN StrV(Str(kw.query)) ELSE NoneV
\* The value of the local variable query after lines 48-69.
ResolveQuery(args, kw) ==
    IF kw.query # Absent THEN StrV(Str(kw.query))
    ELSE IF args = <<>> THEN NoneV
    ELSE LET a == args[1] IN
         IF a.t = "str" THEN a
         ELSE IF a.t \in {"tuple", "list"} /\ Len(a.e) > 0 THEN StrV(Str(a.e[1]))
         ELSE IF a.t = "obj" THEN StrV(a.s)
         ELSE StrV(Str(a))

\* A faulty variant: a "k" that is not an integer falls through to "limit".
ResolveCountFallsThrough(args, kw) ==
    IF kw.k # Absent /\ IsInt(kw.k) THEN kw.k.i
    ELSE IF kw.limit # Absent
         THEN IF IsInt(kw.limit) THEN Max(kw.limit.i * 3, 10) ELSE 10
    ELSE IF kw.k # Absent THEN DEFAULT_K
    ELSE IF Len(args) > 1 /\ IsInt(args[2]) THEN args[2].i
    ELSE DEFAULT_K
\* The value of the local variable k after lines 49-74.
ResolveCount(args, kw) ==
    IF kw.k # Absent
    THEN IF IsInt(kw.k) THEN kw.k.i ELSE DEFAULT_K
    ELSE IF kw.limit # Absent
         THEN IF IsInt(kw.limit) THEN Max(kw.limit.i * 3, 10) ELSE 10
    ELSE IF Len(args) > 1 /\ IsInt(args[2]) THEN args[2].i
    ELSE DEFAULT_K

\* A faulty variant: only a missing query is turned away, an empty one is sent.
UsableUnlessNone(q) == q.t # "none"
\* not (not query or not isinstance(query, str))
Usable(q) == q.t = "str" /\ q.s # ""

\* What the vector store holds for a query, best first: documents with a
\* score and, unless the metadata is damaged, a tool_id.
Doc(id, score, hasId) == [id |-> id, score |-> score, hasId |-> hasId]

MaxDocs == 13

Ranking == [n \in 1..MaxDocs |-> Doc(n, 100 - n, TRUE)]

Corpora ==
    { SubSeq(Ranking, 1, n) : n \in {0, 2, 6, MaxDocs} }
    \cup { [n \in 1..6 |-> IF n = 2 THEN Doc(0, 98, FALSE) ELSE Ranking[n]] }

Min(a, b) == IF a <= b THEN a ELSE b

NoRequest == [sent |-> FALSE, query |-> "", k |-> 0]
NoAnswer  == [kind |-> "none", hits |-> <<>>]

\* similarity_search_with_score(query, k=k): it raises (no connection, a
\* query the server refuses), or returns at most k documents, best first.
BackendAnswers(kk) ==
    { [kind |-> e, hits |-> <<>>] : e \in {"connection_error", "query_error"} }
    \cup { [kind |-> "ok", hits |-> SubSeq(c, 1, Min(kk, Len(c)))] : c \in Corpora }

SearchResult(key, score) == [key |-> key, score |-> score]

\* A faulty variant: a document without tool_id is not caught by the try block.
SearchOutcomeKeyErrorEscapes(a) ==
    IF a.kind # "ok" THEN [raises |-> "none", result |-> <<>>]
    ELSE IF \E n \in 1..Len(a.hits) : ~a.hits[n].hasId
         THEN [raises |-> "KeyError", result |-> <<>>]
    ELSE [raises |-> "none",
          result |-> [n \in 1..Len(a.hits) |->
                         SearchResult(a.hits[n].id, a.hits[n].score)]]
\* The try block of search: the list returned, and the exception let through.
SearchOutcome(a) ==
    IF a.kind # "ok" THEN [raises |-> "none", result |-> <<>>]
    ELSE IF \E n \in 1..Len(a.hits) : ~a.hits[n].hasId
         \* doc.metadata["tool_id"] raises KeyError inside the try
         THEN [raises |-> "none", result |-> <<>>]
    ELSE [raises |-> "none",
          result |-> [n \in 1..Len(a.hits) |->
                         SearchResult(a.hits[n].id, a.hits[n].score)]]

---------------------------------------------------------------------------
(* Inputs of search                                                        *)

FirstArgs ==
    { StrV("disk usage"), StrV(""),
      TupleV(<<StrV("disk usage")>>), TupleV(<<>>), TupleV(<<IntV(3), StrV("x")>>),
      ListV(<<StrV("list files")>>),
      QueryObj("free memory"), QueryObj(""), PlainObj, IntV(7), NoneV }

SecondArgs == { IntV(7), StrV("7") }

ArgTuples ==
    { <<>> } \cup { <<a>> : a \in FirstArgs }
             \cup { <<a, b>> : a \in FirstArgs, b \in SecondArgs }

QueryKeywords == { Absent, StrV("find files"), StrV(""), NoneV, IntV(3) }
KKeywords     == { Absent, IntV(3), IntV(0), StrV("3"), NoneV, BoolV(TRUE), FloatV("2.5") }
LimitKeywords == { Absent, IntV(4), IntV(1), StrV("4"), NoneV }

Kwargs ==
    { [query |-> q, k |-> kk, limit |-> l] :
        q \in QueryKeywords, kk \in KKeywords, l \in LimitKeywords }

NoKwargs == [query |-> Absent, k |-> Absent, limit |-> Absent]

---------------------------------------------------------------------------
(* MilvusStoreWrapper.search, step by step                                 *)

SearchIdle ==
    /\ qpc = "idle"
    /\ sargs = <<>>
    /\ skwargs = NoKwargs
    /\ query = NoneV
    /\ topK = DEFAULT_K
    /\ request = NoRequest
    /\ answer = NoAnswer
    /\ sresult = <<>>
    /\ sraised = "none"

\* Lines 48-74: query and k are resolved from args and kwargs.
Search(args, kw) ==
    /\ qpc = "idle"
    /\ sargs' = args
    /\ skwargs' = kw
    /\ query' = ResolveQuery(args, kw)
    /\ topK' = ResolveCount(args, kw)
    /\ qpc' = "resolved"
    /\ UNCHANGED <<notSearch, request, answer, sresult, sraised>>

\* Lines 77-79: without a usable query the empty list is returned.
RejectQuery ==
    /\ qpc = "resolved"
    /\ ~Usable(query)
    /\ sresult' = <<>>
    /\ qpc' = "returned"
    /\ UNCHANGED <<notSearch, sargs, skwargs, query, topK, request, answer, sraised>>

\* Line 84: the request goes to the vector store.
SendRequest ==
    /\ qpc = "resolved"
    /\ Usable(query)
    /\ request' = [sent |-> TRUE, query |-> query.s, k |-> topK]
    /\ qpc' = "backend"
    /\ UNCHANGED <<notSearch, sargs, skwargs, query, topK, answer, sresult, sraised>>

\* Lines 84-101: the vector store answers or fails; search returns.
BackendEnds(a) ==
    /\ qpc = "backend"
    /\ answer' = a
    /\ LET o == SearchOutcome(a) IN
         IF o.raises # "none"
         THEN qpc' = "raised" /\ sraised' = o.raises /\ UNCHANGED sresult
         ELSE qpc' = "returned" /\ sresult' = o.result /\ UNCHANGED sraised
    /\ UNCHANGED <<notSearch, sargs, skwargs, query, topK, request>>

\* The caller takes the list; the adapter is ready for the next call.
SearchDone ==
    /\ qpc \in {"returned", "raised"}
    /\ qpc' = "idle"
    /\ sargs' = <<>>
    /\ skwargs' = NoKwargs
    /\ query' = NoneV
    /\ topK' = DEFAULT_K
    /\ request' = NoRequest
    /\ answer' = NoAnswer
    /\ sresult' = <<>>
    /\ sraised' = "none"
    /\ UNCHANGED notSearch

SearchNext ==
    \/ qpc = "idle" /\ \E args \in ArgTuples, kw \in Kwargs : Search(args, kw)
    \/ RejectQuery
    \/ SendRequest
    \/ \E a \in BackendAnswers(topK) : BackendEnds(a)
    \/ SearchDone

---------------------------------------------------------------------------
(* agent/dynamic_tools.py: load_system_command_tools                       *)

\* 2000 in the source; the hosts of the model are scaled down with it, and
\* it stays above the number of essential commands a host can have.
MAX_TOOLS_TO_CREATE == 3

MAX_HELP_TEXT_LENGTH == 30000

BASE_COMMANDS_TO_EXCLUDE ==
    { "sudo", "su", "doas", "exit", "logout", "login", "passwd", "shutdown",
      "reboot", "kill", "pkill", "killall", "bg", "fg", "jobs", "alias",
      "unalias", "source", "export", "set", "unset", "history", "let", "eval",
      "exec", "sh", "bash", "zsh", "python", "pip", "conda", "docker", "git",
      "make" }

essential_commands ==
    << "mkdir", "mv", "cp", "rm", "ls", "cd", "pwd", "cat", "touch" >>

\* known_managers["Linux"] of discover_package_managers
KnownManagers == { "apt", "yum", "dnf", "pacman", "zypper", "apt-get", "dpkg" }

Range(s) == { s[n] : n \in 1..Len(s) }

\* The names a host of the model can have on its search path, in the order
\* sorted() gives them.
SortedNames == << "apt", "awk", "ls", "rm", "sed", "sudo", "zip" >>

\* A host: the names discover_executables_from_path finds, the names
\* shutil.which finds among the essential commands, and the package
\* managers shutil.which finds.
Hosts ==
    [ path     : SUBSET Range(SortedNames),
      which    : SUBSET (Range(essential_commands) \cap Range(SortedNames)),
      managers : SUBSET (KnownManagers \cap Range(SortedNames)) ]

NoHost == [path |-> {}, which |-> {}, managers |-> {}]

\* sorted(list(names))
Sorted(names) == SelectSeq(SortedNames, LAMBDA c : c \in names)

\* A faulty variant: nothing is excluded.
ValidCmdsUnfiltered(h) == Sorted(h.path)
\* valid_cmds = sorted(list(all_cmds - COMMANDS_TO_EXCLUDE))
ValidCmds(h) == Sorted(h.path \ (BASE_COMMANDS_TO_EXCLUDE \cup h.managers))

\* The loop over essential_commands: each one shutil.which finds and that is
\* not yet in valid_cmds is appended.
RECURSIVE AppendEssentials(_, _, _)
AppendEssentials(valid, which, n) ==
    IF n > Len(essential_commands) THEN valid
    ELSE LET cmd == essential_commands[n] IN
         IF cmd \in which /\ cmd \notin Range(valid)
         THEN AppendEssentials(Append(valid, cmd), which, n + 1)
         ELSE AppendEssentials(valid, which, n + 1)

\* essential_found, other_cmds
EssentialFound(valid) == SelectSeq(essential_commands, LAMBDA c : c \in Range(valid))
OtherCmds(valid) == SelectSeq(valid, LAMBDA c : c \notin Range(essential_commands))

\* random.sample(population, r): r entries of the list, no position twice,
\* in any order.
Samples(population, r) ==
    { [n \in 1..r |-> population[p[n]]] :
        p \in { q \in [1..r -> 1..Len(population)] :
                  \A a, b \in 1..r : a # b => q[a] # q[b] } }

\* A faulty variant (the sampling of agent/tool_retriever.py): the sample is
\* taken from all candidates, the essential ones among them.
CeilingSamplesAll(valid) ==
    IF Len(valid) > MAX_TOOLS_TO_CREATE
    THEN Samples(valid, MAX_TOOLS_TO_CREATE)
    ELSE { valid }
\* A faulty variant: the slots taken by the essential commands are not
\* subtracted from the sample size.
CeilingSlotsNotReduced(valid) ==
    IF Len(valid) > MAX_TOOLS_TO_CREATE
    THEN { EssentialFound(valid) \o s :
             s \in Samples(OtherCmds(valid),
                           IF MAX_TOOLS_TO_CREATE <= Len(OtherCmds(valid))
                           THEN MAX_TOOLS_TO_CREATE ELSE Len(OtherCmds(valid))) }
    ELSE { valid }
\* Lines 245-265: the lists valid_cmds can be after the ceiling is enforced.
Ceiling(valid) ==
    IF Len(valid) > MAX_TOOLS_TO_CREATE
    THEN LET essential_found == EssentialFound(valid)
             other_cmds      == OtherCmds(valid)
             remaining_slots == MAX_TOOLS_TO_CREATE - Len(essential_found)
         IN  IF remaining_slots > 0
             THEN { essential_found \o s :
                      s \in Samples(other_cmds,
                                    IF remaining_slots <= Len(other_cmds)
                                    THEN remaining_slots ELSE Len(other_cmds)) }
             ELSE { SubSeq(essential_found, 1, MAX_TOOLS_TO_CREATE) }
    ELSE { valid }

\* What get_command_help returns: a help page of some length, or the text
\* "No help page found."
SentinelLen == 19
HelpLengths ==
    { 1, MAX_HELP_TEXT_LENGTH, MAX_HELP_TEXT_LENGTH + 1, 2 * MAX_HELP_TEXT_LENGTH }
\* platform.system()
Systems == { "Linux", "Darwin", "Windows" }

\* What one subprocess.run of a probe can do: the child exits with a return
\* code and so much standard output, or run raises. MemoryError stands for
\* every exception outside the classes get_command_help handles.
ProbeOutcomes ==
    { [kind |-> "exit", rc |-> rc, out |-> n] :
          rc \in {0, 1}, n \in {0} \cup HelpLengths }
    \cup { [kind |-> k, rc |-> 0, out |-> 0] :
          k \in {"FileNotFoundError", "TimeoutExpired", "OSError", "MemoryError"} }

\* result.returncode == 0 and result.stdout
ProbeSucceeded(o) == o.kind = "exit" /\ o.rc = 0 /\ o.out > 0

\* except (FileNotFoundError, subprocess.TimeoutExpired, OSError)
HandledProbeErrors == { "FileNotFoundError", "TimeoutExpired", "OSError" }

\* The probe that follows "--help": man, or "/?" on Windows.
SecondProbe(sys) == IF sys # "Windows" THEN "man" ELSE "/?"

HelpText(n) == [found |-> TRUE, len |-> n, raised |-> "none"]
Sentinel    == [found |-> FALSE, len |-> SentinelLen, raised |-> "none"]
HelpRaises(e) == [found |-> FALSE, len |-> 0, raised |-> e]
NoHelp      == [found |-> FALSE, len |-> 0, raised |-> "none"]

\* What get_command_help does when its last probe did o and no probe
\* follows: the output, the sentinel, or the exception goes on.
LastProbe(o) ==
    IF o.kind = "exit"
    THEN IF ProbeSucceeded(o) THEN HelpText(o.out) ELSE Sentinel
    ELSE IF o.kind \in HandledProbeErrors THEN Sentinel
    ELSE HelpRaises(o.kind)

\* get_command_help when the first probe did o1 and the second, if it is
\* reached, o2.
get_command_help(o1, o2) ==
    IF o1.kind = "exit" /\ ~ProbeSucceeded(o1) THEN LastProbe(o2)
    ELSE LastProbe(o1)

\* Everything get_command_help can hand to the loop of the scan.
Helps == { get_command_help(o1, o2) : o1 \in ProbeOutcomes, o2 \in ProbeOutcomes }

\* "\n... (description truncated)"
MarkerLen == 28
\* "Executes the '" and "' command. Its help page is:\n---\n"
WrapperLen == 47
\* "Essential file system command: "
GenericLen == 31

\* A faulty variant: the help text is used at its full length.
HelpTextLenUncut(len) == len
\* Lines 276-279: the length of help_text after the truncation.
HelpTextLen(len) ==
    IF len > MAX_HELP_TEXT_LENGTH THEN MAX_HELP_TEXT_LENGTH + MarkerLen ELSE len

NoTool == [made |-> FALSE, name |-> "", description |-> 0, generic |-> FALSE]

\* A faulty variant: a command without a help page is skipped, essential or not.
MakeToolSkipsUnhelped(command, help) ==
    IF ~help.found THEN NoTool
    ELSE [made |-> TRUE, name |-> command,
          description |-> WrapperLen + Len(command) + HelpTextLen(help.len),
          generic |-> FALSE]
\* Lines 273-297, one pass of the loop: the Tool made for the command (its
\* name, the length of its description), or none.
MakeTool(command, help) ==
    IF ~help.found
    THEN IF command \in Range(essential_commands)
         THEN [made |-> TRUE, name |-> command,
               description |-> WrapperLen + Len(command) + GenericLen + Len(command),
               generic |-> TRUE]
         ELSE NoTool
    ELSE [made |-> TRUE, name |-> command,
          description |-> WrapperLen + Len(command) + HelpTextLen(help.len),
          generic |-> FALSE]

---------------------------------------------------------------------------
(* agent/dynamic_tools.py: get_command_help, step by step                  *)

\* No call of get_command_help is under way.
HelpIdle ==
    /\ hpc = "idle"
    /\ system = "Linux"
    /\ tried = <<>>
    /\ outcomes = <<>>
    /\ hresult = NoHelp

\* get_command_help(command) is called on a host of some family.
GetCommandHelp(sys) ==
    /\ hpc = "idle"
    /\ system' = sys
    /\ tried' = <<>>
    /\ outcomes' = <<>>
    /\ hresult' = NoHelp
    /\ hpc' = "first"
    /\ UNCHANGED notHelp

\* subprocess.run([command, "--help"], ...) does o.
ProbeHelp(o) ==
    /\ hpc = "first"
    /\ tried' = Append(tried, "--help")
    /\ outcomes' = Append(outcomes, o)
    /\ IF o.kind = "exit" /\ ~ProbeSucceeded(o)
       THEN hpc' = "second" /\ UNCHANGED hresult
       ELSE /\ hresult' = LastProbe(o)
            /\ hpc' = IF LastProbe(o).raised = "none" THEN "returned" ELSE "raised"
    /\ UNCHANGED <<notHelp, system>>

\* subprocess.run(["man", command], ...), or [command, "/?"] on Windows,
\* does o.
ProbeSecond(o) ==
    /\ hpc = "second"
    /\ tried' = Append(tried, SecondProbe(system))
    /\ outcomes' = Append(outcomes, o)
    /\ hresult' = LastProbe(o)
    /\ hpc' = IF LastProbe(o).raised = "none" THEN "returned" ELSE "raised"
    /\ UNCHANGED <<notHelp, system>>

\* The caller has the result; the next call may start.
HelpDone ==
    /\ hpc \in {"returned", "raised"}
    /\ hpc' = "idle"
    /\ system' = "Linux"
    /\ tried' = <<>>
    /\ outcomes' = <<>>
    /\ hresult' = NoHelp
    /\ UNCHANGED notHelp

HelpNext ==
    \/ \E sys \in Systems : GetCommandHelp(sys)
    \/ \E o \in ProbeOutcomes : ProbeHelp(o)
    \/ \E o \in ProbeOutcomes : ProbeSecond(o)
    \/ HelpDone

---------------------------------------------------------------------------
(* load_system_command_tools, step by step                                 *)

\* No scan is under way.
ScanIdle ==
    /\ zpc = "idle"
    /\ host = NoHost
    /\ valid_cmds = <<>>
    /\ uncapped = <<>>
    /\ tools = <<>>
    /\ pos = 0
    /\ lastHelp = NoHelp

\* load_system_command_tools is called on some host.
ScanInit ==
    /\ zpc = "start"
    /\ host \in Hosts
    /\ valid_cmds = <<>>
    /\ uncapped = <<>>
    /\ tools = <<>>
    /\ pos = 0
    /\ lastHelp = NoHelp

\* Lines 227-231: discovery and exclusion.
Exclude ==
    /\ zpc = "start"
    /\ valid_cmds' = ValidCmds(host)
    /\ zpc' = "excluded"
    /\ UNCHANGED <<notScan, lastHelp, host, uncapped, tools, pos>>

\* Lines 233-243: the essential commands are force-included.
IncludeEssentials ==
    /\ zpc = "excluded"
    /\ valid_cmds' = AppendEssentials(valid_cmds, host.which, 1)
    /\ zpc' = "included"
    /\ UNCHANGED <<notScan, lastHelp, host, uncapped, tools, pos>>

\* Lines 245-265: the ceiling; c is what the sampling picked.
EnforceCeiling(c) ==
    /\ zpc = "included"
    /\ c \in Ceiling(valid_cmds)
    /\ uncapped' = valid_cmds
    /\ valid_cmds' = c
    /\ pos' = 1
    /\ zpc' = "tools"
    /\ UNCHANGED <<notScan, lastHelp, host, tools>>

\* Lines 272-297: one pass of the loop over valid_cmds; an exception that
\* get_command_help lets through ends load_system_command_tools.
CreateTool(help) ==
    /\ zpc = "tools"
    /\ pos <= Len(valid_cmds)
    /\ IF help.raised # "none"
       THEN zpc' = "raised" /\ UNCHANGED <<tools, pos>>
       ELSE /\ LET t == MakeTool(valid_cmds[pos], help) IN
                 tools' = IF t.made THEN Append(tools, t) ELSE tools
            /\ pos' = pos + 1
            /\ UNCHANGED zpc
    /\ lastHelp' = help
    /\ UNCHANGED <<notScan, host, valid_cmds, uncapped>>

\* Lines 299-300: the list of tools is returned.
ReturnTools ==
    /\ zpc = "tools"
    /\ pos > Len(valid_cmds)
    /\ zpc' = "returned"
    /\ UNCHANGED <<notScan, lastHelp, host, valid_cmds, uncapped, tools, pos>>

ScanNext ==
    \/ Exclude
    \/ IncludeEssentials
    \/ \E c \in Ceiling(valid_cmds) : EnforceCeiling(c)
    \/ \E help \in Helps : CreateTool(help)
    \/ ReturnTools

---------------------------------------------------------------------------
(* agent/agent_core.py: MilvusStoreWrapper.get, put, delete                *)

\* The Python value None where a descriptor is expected.
NoDescriptor == [name |-> "", description |-> "", attrs |-> {}]

\* The keys the framework may pass: those of one build and one more.
StoreKeys == 1 .. (IdStride + 1)

\* The descriptors the framework may put.
PutValues == { Tool("ls"), Tool("mv") }

\* self.tool_registry.get(key)
DictGet(reg, key) == IF key \in DOMAIN reg THEN reg[key] ELSE NoDescriptor

\* self.tool_registry[key] = value
DictSet(reg, key, value) ==
    [i \in DOMAIN reg \cup {key} |-> IF i = key THEN value ELSE reg[i]]

\* del self.tool_registry[key]
DictDel(reg, key) == [i \in DOMAIN reg \ {key} |-> reg[i]]

NoOp == [op |-> "none", key |-> 0, value |-> NoDescriptor,
         before |-> EmptyReg, ret |-> NoDescriptor]

NeverPut == [key \in StoreKeys |-> NoDescriptor]

\* No agent has been built.
StoreIdle ==
    /\ tool_registry = EmptyReg
    /\ index_ids = {}
    /\ lastOp = NoOp
    /\ lastPut = NeverPut

\* create_bigtool_agent has returned: the wrapper holds the registry the
\* agent was built with and the collection populated from it.
StoreInit ==
    /\ tool_registry \in { BuildRegistry(all_tools, 1) : all_tools \in ScanResults }
    /\ index_ids = DOMAIN tool_registry
    /\ lastOp = NoOp
    /\ lastPut = NeverPut

\* get(key): the descriptor, or None when the key is not in the dict.
StoreGet(key) ==
    /\ lastOp' = [op |-> "get", key |-> key, value |-> NoDescriptor,
                  before |-> tool_registry, ret |-> DictGet(tool_registry, key)]
    /\ UNCHANGED <<notStore, tool_registry, index_ids, lastPut>>

\* put(key, value): the dict entry is set; the collection is not touched.
StorePut(key, value) ==
    /\ tool_registry' = DictSet(tool_registry, key, value)
    /\ lastPut' = [lastPut EXCEPT ![key] = value]
    /\ lastOp' = [op |-> "put", key |-> key, value |-> value,
                  before |-> tool_registry, ret |-> NoDescriptor]
    /\ UNCHANGED <<notStore, index_ids>>

\* delete(key): the dict entry is removed when there is one; the collection
\* is not touched.
StoreDelete(key) ==
    /\ tool_registry' = IF key \in DOMAIN tool_registry
                        THEN DictDel(tool_registry, key)
                        ELSE tool_registry
    /\ lastPut' = [lastPut EXCEPT ![key] = NoDescriptor]
    /\ lastOp' = [op |-> "delete", key |-> key, value |-> NoDescriptor,
                  before |-> tool_registry, ret |-> NoDescriptor]
    /\ UNCHANGED <<notStore, index_ids>>

StoreNext ==
    \/ \E key \in StoreKeys : StoreGet(key)
    \/ \E key \in StoreKeys, value \in PutValues : StorePut(key, value)
    \/ \E key \in StoreKeys : StoreDelete(key)

---------------------------------------------------------------------------
(* Specifications                                                          *)

\* Calls of the execution gateway; no process is starting meanwhile.
InitExec == ExecInit /\ CacheFresh /\ SearchIdle /\ ScanIdle /\ StoreIdle /\ HelpIdle
SpecExec == InitExec /\ [][ExecNext]_vars

\* Startups of the agent over the cache file and the collection; the
\* gateway is idle meanwhile.
InitCache == ExecInit /\ CacheInit /\ SearchIdle /\ ScanIdle /\ StoreIdle /\ HelpIdle
SpecCache == InitCache /\ [][CacheNext]_vars

\* Calls of the adapter's search; the gateway is idle and no process is starting.
InitSearch == ExecInit /\ CacheFresh /\ SearchIdle /\ ScanIdle /\ StoreIdle /\ HelpIdle
SpecSearch == InitSearch /\ [][SearchNext]_vars

\* One scan of a host; nothing else is going on.
InitScan == ExecInit /\ CacheFresh /\ SearchIdle /\ ScanInit /\ StoreIdle /\ HelpIdle
SpecScan == InitScan /\ [][ScanNext]_vars

\* The store of a built agent under get, put and delete.
InitStore == ExecInit /\ CacheFresh /\ SearchIdle /\ ScanIdle /\ StoreInit /\ HelpIdle
SpecStore == InitStore /\ [][StoreNext]_vars

\* Calls of get_command_help on hosts of every family.
InitHelp == ExecInit /\ CacheFresh /\ SearchIdle /\ ScanIdle /\ StoreIdle /\ HelpIdle
SpecHelp == InitHelp /\ [][HelpNext]_vars

---------------------------------------------------------------------------
(* Properties of the cache and the startup, checked under SpecCache        *)

\* A cache file that load accepts: it unpickles to a non-empty dict whose
\* entries all have a name and a description.
ValidCache(f) ==
    /\ f.exists
    /\ PickleLoad(f.data).error = "none"
    /\ PickleLoad(f.data).kind = "dict"
    /\ DOMAIN PickleLoad(f.data).map # {}
    /\ \A i \in DOMAIN PickleLoad(f.data).map :
          {"name", "description"} \subseteq PickleLoad(f.data).map[i].attrs

\* A cache file with content that is not a valid cache.
CorruptCache(f) == f.exists /\ f.data # <<>> /\ ~ValidCache(f)

\* C1: whatever the cache and backup files were and wherever the rename to
\* the backup, the write or the restoring rename fails, once the write of a
\* save has failed the file system still holds the complete prior valid
\* cache (at the cache path or at the backup path) or a complete new valid
\* cache, during the rest of the save and when it has returned.
C1_FailedSaveKeepsACache ==
    ( /\ spc \in {"save_restore", "populate"}
      /\ saveFailed
      /\ ValidCache(savePrior) )
        => \/ cache = savePrior
           \/ backup = savePrior
           \/ (ValidCache(cache) /\ cache.data = Pickle(registry.map))

\* C2: whenever a startup returns an agent, every identifier in the
\* collection's metadata resolves in the registry that agent holds.
C2_IndexResolvesInRegistry ==
    (spc = "ready") => (coll.ids \subseteq DOMAIN registry.map)

\* C9: when the cache file fails to deserialize for any reason, or is not a
\* mapping, or has no entry, or has an entry without name or description,
\* load returns None and the file no longer exists afterwards (the file
\* system carrying out the removal).
C9_CorruptCacheRemoved ==
    (loadTrace.done /\ CorruptCache(loadTrace.file) /\ loadTrace.removeOk)
        => (loadTrace.ret = None /\ ~cache.exists)

SameContent(a, b) ==
    /\ DOMAIN a = DOMAIN b
    /\ \A i \in DOMAIN a :
          a[i].name = b[i].name /\ a[i].description = b[i].description

C12_LoadReadOnlyIdempotent ==
    /\ (loadTrace.done /\ ValidCache(loadTrace.file))
          => /\ cache = loadTrace.file
             /\ backup = loadTrace.backup
             /\ loadTrace.ret.some
    /\ (loadTrace.done /\ prevLoad.done /\ ValidCache(prevLoad.file))
          => /\ loadTrace.file = prevLoad.file
             /\ loadTrace.backup = prevLoad.backup
             /\ prevLoad.ret.some
             /\ loadTrace.ret.some
             /\ SameContent(loadTrace.ret.map, prevLoad.ret.map)

C12_Witness ==
    /\ spc = "ready"
    /\ prevLoad.done
    /\ loadTrace.done
    /\ ValidCache(prevLoad.file)
    /\ loadTrace.removeOk # prevLoad.removeOk
    /\ loadTrace.ret = prevLoad.ret
    /\ backup.exists
    /\ cache = prevLoad.file

---------------------------------------------------------------------------
(* Properties of the registry build, checked under SpecCache               *)

\* The identifiers stored in a cache file, whoever wrote it.
FileIds(f) ==
    { f.data[j].id : j \in { n \in DOMAIN f.data : f.data[n].op = "item" } }

\* C20: each build assigns exactly one fresh identifier per descriptor: the
\* registry it builds has as many entries as the scan returned descriptors,
\* every descriptor is the value of an entry, and no identifier of the new
\* generation is an identifier of an earlier generation, whether assigned
\* by an earlier build of any process or still held by the cache file, its
\* backup or the collection.
C20_FreshIdsPerBuild ==
    [][ (spc = "scan" /\ spc' = "save_rename")
          => LET new == DOMAIN registry'.map IN
               /\ registry'.some
               /\ Cardinality(new) = Len(scanned')
               /\ \A n \in 1..Len(scanned') :
                     \E i \in new : registry'.map[i].name = scanned'[n]
               /\ new \cap issued = {}
               /\ new \cap (FileIds(cache) \cup FileIds(backup) \cup coll.ids) = {}
               /\ issued' = issued \cup new ]_vars

C20_Witness ==
    /\ spc = "save_rename"
    /\ Len(scanned) = 2
    /\ Cardinality(DOMAIN registry.map) = 2
    /\ Cardinality(issued) = 5
    /\ coll.exists
    /\ Cardinality(coll.ids) = 2
    /\ coll.ids \cap DOMAIN registry.map = {}
    /\ FileIds(cache) # {}

\* C21: a startup rebuilds everything or nothing. The rebuild (scan, build,
\* persist, drop and repopulate, in that order) is entered exactly when
\* collection_exists reports no collection or load returns None; on the
\* fast path nothing is scanned and neither the cache file nor the
\* collection is written; and when the rebuild leaves the population step,
\* the cache file holds the registry just built exactly when the collection
\* holds its identifiers.
C21_RebuildAllOrNothing ==
    [][ /\ (spc' = "scan" /\ spc # "scan")
           => \/ spc = "check"
              \/ spc = "load" /\ loadTrace'.done /\ ~loadTrace'.ret.some
        /\ (spc = "load" /\ spc' = "connect")
           => /\ coll.exists
              /\ loadTrace'.ret.some
              /\ registry' = loadTrace'.ret
              /\ cache' = cache /\ backup' = backup /\ coll' = coll
              /\ nextId' = nextId
        /\ (spc' = "save_rename" /\ spc # "save_rename") => spc = "scan"
        /\ (spc' = "populate" /\ spc # "populate")
           => spc \in {"save_cleanup", "save_restore"}
        /\ (spc = "populate" /\ spc' # "populate")
           => LET ids == DOMAIN registry.map IN
                ids # {} =>
                   ((cache' = File(Pickle(registry.map)))
                       <=> (coll' = [exists |-> TRUE, ids |-> ids])) ]_vars

---------------------------------------------------------------------------
(* Properties of the store's pass-through, checked under SpecStore         *)

\* C22: after any sequence of put, delete and get on the store of a built
\* agent, every identifier held by the collection (every identifier search
\* can return) resolves through get to a descriptor; get returns the value
\* last put for the key; and delete of a key that is not in the registry
\* changes nothing.
C22_PassThroughKeepsCorrespondence ==
    /\ \A id \in index_ids : DictGet(tool_registry, id) # NoDescriptor
    /\ (lastOp.op = "get" /\ lastPut[lastOp.key] # NoDescriptor)
          => lastOp.ret = lastPut[lastOp.key]
    /\ (lastOp.op = "delete" /\ lastOp.key \notin DOMAIN lastOp.before)
          => tool_registry = lastOp.before

---------------------------------------------------------------------------
(* Properties of help extraction, checked under SpecHelp                   *)

\* C23: the probes run in a fixed order and the first success wins:
\* "--help" is the first probe; whenever it is unsuccessful in any way
\* (non-zero exit, no output, executable not found, timeout) the next probe
\* is run, "man" on a host that is not Windows and "/?" on Windows; the
\* output of the first successful probe is what is returned; and the
\* sentinel is returned only after both probes have been run and failed.
C23_ProbesInOrderFirstSuccessWins ==
    (hpc = "returned") =>
        /\ Len(tried) >= 1 /\ tried[1] = "--help"
        /\ ProbeSucceeded(outcomes[1])
              => (Len(tried) = 1 /\ hresult = HelpText(outcomes[1].out))
        /\ ~ProbeSucceeded(outcomes[1])
              => /\ Len(tried) = 2
                 /\ tried[2] = IF system = "Windows" THEN "/?" ELSE "man"
                 /\ ProbeSucceeded(outcomes[2])
                       => hresult = HelpText(outcomes[2].out)
        /\ (hresult = Sentinel)
              => /\ Len(tried) = 2
                 /\ \A n \in 1..2 : ~ProbeSucceeded(outcomes[n])

---------------------------------------------------------------------------
(* Properties of the scan's loop, checked under SpecScan                   *)

\* C24: the scan always runs to completion: whatever a candidate's probes
\* do, no exception leaves load_system_command_tools, and when it returns
\* every candidate of valid_cmds has been processed.
C24_ScanAlwaysCompletes ==
    /\ zpc # "raised"
    /\ (zpc = "returned") => (pos = Len(valid_cmds) + 1)

\* C25: an essential command among the candidates yields a descriptor
\* even when all its probes fail (it gets the generic description), a
\* candidate that is not essential and whose probes all fail yields none,
\* and so every essential command present on the host is in the list the
\* scan returns, from which every registry is built.
C25_EssentialsAlwaysDescribed ==
    /\ (zpc \in {"tools", "returned"} /\ pos > 1)
          => LET cmd == valid_cmds[pos - 1] IN
               /\ cmd \in {"mkdir", "mv", "cp", "rm", "ls", "cd", "pwd", "cat", "touch"}
                     => /\ tools # <<>>
                        /\ tools[Len(tools)].name = cmd
                        /\ ~lastHelp.found => tools[Len(tools)].generic
               /\ (cmd \notin {"mkdir", "mv", "cp", "rm", "ls", "cd", "pwd", "cat", "touch"}
                     /\ ~lastHelp.found)
                     => \A n \in 1..Len(tools) : tools[n].name # cmd
    /\ (zpc = "returned")
          => \A cmd \in {"mkdir", "mv", "cp", "rm", "ls", "cd", "pwd", "cat", "touch"} :
                (cmd \in host.path \cup host.which)
                   => \E n \in 1..Len(tools) : tools[n].name = cmd

C25_Witness ==
    /\ zpc = "returned"
    /\ "rm" \in host.which /\ "rm" \notin host.path
    /\ \E n \in 1..Len(tools) : tools[n].name = "rm" /\ tools[n].generic
    /\ \E n \in 1..Len(tools) : tools[n].name = "ls" /\ ~tools[n].generic
    /\ "awk" \in Range(valid_cmds)
    /\ \A n \in 1..Len(tools) : tools[n].name # "awk"
    /\ valid_cmds[Len(valid_cmds)] = "awk"
    /\ ~lastHelp.found

\* C26: no descriptor the scan makes has a name of the static denylist or
\* of a package manager found on the host, the essential commands
\* excepted; in particular sudo, su and doas are never exposed, whatever
\* the search path holds.
C26_ExcludedNeverExposed ==
    \A n \in 1..Len(tools) :
        /\ tools[n].name \in BASE_COMMANDS_TO_EXCLUDE \cup host.managers
              => tools[n].name \in Range(essential_commands)
        /\ tools[n].name \notin {"sudo", "su", "doas"}

C26_Witness ==
    /\ zpc = "returned"
    /\ {"sudo", "apt", "awk", "sed"} \subseteq host.path
    /\ "apt" \in host.managers
    /\ Len(valid_cmds) = 2
    /\ Len(tools) = 2
    /\ \E n \in 1..Len(tools) : tools[n].name = "awk"
    /\ \E n \in 1..Len(tools) : tools[n].name = "sed"

---------------------------------------------------------------------------
(* Properties of search, checked under SpecSearch                          *)

\* C13 as stated: the result count is the integer "k" keyword when one is
\* given; otherwise max(3*limit, 10) when a "limit" keyword is given (so a
\* "k" that is not an integer does not suppress "limit"); otherwise 5.
C13_CountPrecedence ==
    (qpc # "idle")
        => IF skwargs.k # Absent /\ IsInt(skwargs.k)
           THEN topK = skwargs.k.i
           ELSE IF skwargs.limit # Absent
                THEN IsInt(skwargs.limit)
                        => topK = (IF 3 * skwargs.limit.i >= 10
                                   THEN 3 * skwargs.limit.i ELSE 10)
           ELSE topK = 5

\* C13 amended: when a "k" keyword is given the count is k if it is an
\* integer and 5 if it is not, and "limit" is not looked at; otherwise, when
\* a "limit" keyword is given the count is max(3*limit, 10) if it is an
\* integer and 10 if it is not; otherwise the count is the second positional
\* argument if that is an integer, and else the default 5.  {"limit": 4}
\* gives 12 and a call carrying only a query gives 5.
C13_CountResolution ==
    (qpc # "idle")
        => /\ (skwargs.k # Absent /\ skwargs.k.t \in {"int", "bool"})
                => topK = skwargs.k.i
           /\ (skwargs.k # Absent /\ skwargs.k.t \notin {"int", "bool"})
                => topK = 5
           /\ (skwargs.k = Absent /\ skwargs.limit.t \in {"int", "bool"})
                => topK = (IF 3 * skwargs.limit.i >= 10
                           THEN 3 * skwargs.limit.i ELSE 10)
           /\ (skwargs.k = Absent /\ skwargs.limit # Absent
                 /\ skwargs.limit.t \notin {"int", "bool"})
                => topK = 10
           /\ (skwargs.k = Absent /\ skwargs.limit = Absent)
                => topK = (IF Len(sargs) > 1 /\ sargs[2].t \in {"int", "bool"}
                           THEN sargs[2].i ELSE 5)
           /\ (skwargs.k = Absent /\ skwargs.limit = IntV(4)) => topK = 12
           /\ (skwargs.k = Absent /\ skwargs.limit = Absent /\ Len(sargs) <= 1)
                => topK = 5

C13_Witness ==
    /\ qpc = "backend"
    /\ skwargs.k = StrV("3")
    /\ skwargs.limit = IntV(4)
    /\ topK = 5
    /\ request.sent
    /\ request.k = 5

\* C14: the query is the "query" keyword when one is given, whatever the
\* positional arguments; otherwise it comes from the first positional
\* argument: the argument itself when a string, its first element when a
\* non-empty tuple or list, its query attribute when it has one, and its
\* str() otherwise; ("disk usage",) alone gives "disk usage".
C14_QueryPrecedence ==
    (qpc # "idle")
        => /\ (skwargs.query.t = "str") => query = skwargs.query
           /\ (skwargs.query = NoneV) => query = StrV("None")
           /\ (skwargs.query = IntV(3)) => query = StrV("3")
           /\ (skwargs.query = Absent /\ sargs = <<>>) => query = NoneV
           /\ (skwargs.query = Absent /\ sargs # <<>>)
                => LET a == sargs[1] IN
                   /\ (a.t = "str") => query = a
                   /\ (a.t \in {"tuple", "list"} /\ a.e # <<>> /\ a.e[1].t = "str")
                        => query = a.e[1]
                   /\ (a = TupleV(<<IntV(3), StrV("x")>>)) => query = StrV("3")
                   /\ (a.t = "obj") => query = StrV(a.s)
                   /\ (a = TupleV(<<>>)) => query = StrV("()")
                   /\ (a = IntV(7)) => query = StrV("7")
                   /\ (a = NoneV) => query = StrV("None")
                   /\ (a = PlainObj) => query = StrV("<object>")
           /\ (sargs = << TupleV(<<StrV("disk usage")>>) >> /\ skwargs = NoKwargs)
                => (query = StrV("disk usage") /\ topK = 5)

C14_Witness ==
    /\ qpc = "backend"
    /\ sargs = << TupleV(<<StrV("disk usage")>>), IntV(7) >>
    /\ skwargs.query = StrV("find files")
    /\ query = StrV("find files")
    /\ request.query = "find files"

\* C15: when there is neither a "query" keyword nor a positional argument,
\* or the resolved query is empty, search returns the empty list, raises
\* nothing and sends nothing to the vector store.
C15_NoQueryNoRequest ==
    ( /\ qpc \notin {"idle", "resolved"}
      /\ \/ (skwargs.query = Absent /\ sargs = <<>>)
         \/ query = StrV("") )
        => /\ qpc = "returned"
           /\ sresult = <<>>
           /\ sraised = "none"
           /\ ~request.sent
           /\ answer = NoAnswer

C15_Witness ==
    /\ qpc = "returned"
    /\ sargs = << StrV("disk usage") >>
    /\ skwargs.query = StrV("")
    /\ query = StrV("")
    /\ sresult = <<>>
    /\ ~request.sent

\* C16: search never raises; when the vector store fails (no connection, a
\* refused query) or returns a document without tool_id the empty list is
\* returned; otherwise the list holds the (id, score) of the store's hits in
\* the store's order, and it is never longer than the resolved count.
C16_SearchNeverRaises ==
    /\ sraised = "none"
    /\ qpc # "raised"
    /\ (qpc = "returned")
        => /\ Len(sresult) <= topK
           /\ (answer.kind \in {"connection_error", "query_error"})
                => sresult = <<>>
           /\ (answer.kind = "ok" /\ \E n \in 1..Len(answer.hits) : ~answer.hits[n].hasId)
                => sresult = <<>>
           /\ (answer.kind = "ok" /\ \A n \in 1..Len(answer.hits) : answer.hits[n].hasId)
                => /\ Len(sresult) = Len(answer.hits)
                   /\ \A n \in 1..Len(sresult) :
                        /\ sresult[n].key = answer.hits[n].id
                        /\ sresult[n].score = answer.hits[n].score

C16_Witness ==
    /\ qpc = "returned"
    /\ topK = 5
    /\ answer.kind = "ok"
    /\ Len(answer.hits) = 5
    /\ Len(sresult) = 5
    /\ sresult[1].key = 1
    /\ sresult[5].key = 5

---------------------------------------------------------------------------
(* Properties of the scanner, checked under SpecScan                       *)

\* The essential commands the host has: shutil.which finds them, or they
\* are among the names found on the search path.
PresentEssentials ==
    { c \in Range(essential_commands) : c \in host.which \/ c \in host.path }

\* C17: for every host (names on the search path, package managers found,
\* candidates below or above the ceiling) every essential command present
\* on the host is in valid_cmds once the essential commands are included,
\* and still after the ceiling is enforced, sampling or not.
C17_EssentialsAlwaysCandidates ==
    (zpc \in {"included", "tools", "returned"})
        => \A c \in PresentEssentials : \E n \in 1..Len(valid_cmds) : valid_cmds[n] = c

C17_Witness ==
    /\ zpc = "tools"
    /\ Len(uncapped) > Len(valid_cmds)
    /\ host.which = {"ls", "rm"}
    /\ "ls" \notin host.path
    /\ "rm" \in host.path
    /\ "apt" \in host.path
    /\ "sudo" \in host.path
    /\ \E n \in 1..Len(valid_cmds) : valid_cmds[n] = "ls"
    /\ \E n \in 1..Len(valid_cmds) : valid_cmds[n] = "rm"

\* C18: when valid_cmds is longer than the ceiling and the essential
\* commands found are fewer than the ceiling, the list after enforcement has
\* exactly ceiling members, no name twice, and every essential command
\* found; and for every host the list after enforcement is never longer
\* than the ceiling.
C18_CeilingExact ==
    (zpc \in {"tools", "returned"})
        => /\ Len(valid_cmds) <= MAX_TOOLS_TO_CREATE
           /\ ( /\ Len(uncapped) > MAX_TOOLS_TO_CREATE
                /\ Cardinality(Range(uncapped) \cap Range(essential_commands))
                     < MAX_TOOLS_TO_CREATE )
                => /\ Len(valid_cmds) = MAX_TOOLS_TO_CREATE
                   /\ \A a, b \in 1..Len(valid_cmds) :
                        a # b => valid_cmds[a] # valid_cmds[b]
                   /\ \A c \in Range(uncapped) \cap Range(essential_commands) :
                        \E n \in 1..Len(valid_cmds) : valid_cmds[n] = c
                   /\ Range(valid_cmds) \subseteq Range(uncapped)

C18_Witness ==
    /\ zpc = "returned"
    /\ Len(uncapped) = MAX_TOOLS_TO_CREATE + 2
    /\ Len(valid_cmds) = MAX_TOOLS_TO_CREATE
    /\ {"ls", "rm"} \subseteq Range(valid_cmds)
    /\ "zip" \in Range(valid_cmds)
    /\ "awk" \in Range(uncapped)

\* C19 as stated: the description of every tool the scanner makes is at most
\* MAX_HELP_TEXT_LENGTH characters long, whatever the length of the help text.
C19_DescriptionWithinMax ==
    \A n \in 1..Len(tools) : tools[n].description <= 30000

\* C19 amended: the help text is cut to MAX_HELP_TEXT_LENGTH characters
\* before the 28 characters of the truncation marker are appended, so the
\* description of every tool the scanner makes is at most
\* MAX_HELP_TEXT_LENGTH + 28 characters plus the 47 characters of the fixed
\* text around the command name plus the command name, whatever the length
\* of the help text.
C19_DescriptionBounded ==
    \A n \in 1..Len(tools) :
        tools[n].description <= 30000 + 28 + 47 + Len(tools[n].name)

C19_Witness ==
    /\ zpc = "returned"
    /\ \E n \in 1..Len(tools) :
          /\ tools[n].name = "awk"
          /\ tools[n].description = 30000 + 28 + 47 + 3
    /\ \E n \in 1..Len(tools) :
          /\ tools[n].name = "ls"
          /\ tools[n].description = 30000 + 47 + 2

=============================================================================
